---- MODULE Spec2Model ----
(***************************************************************************)
(* Model of src/video/mp4_writer.c (lightNVR): the segment recorder        *)
(* record_segment, the session supervisor mp4_writer_rtsp_thread and the   *)
(* control API mp4_writer_start_recording_thread /                         *)
(* mp4_writer_stop_recording_thread / mp4_writer_is_recording.             *)
(***************************************************************************)
EXTENDS Integers, Sequences, FiniteSets, TLC

(***************************************************************************)
(* int64_t values.  TLC integers are 32 bits wide and the timestamps of    *)
(* interest exceed 2^31-1, so an int64_t is held as <<hi, lo>> standing    *)
(* for hi * 2^16 + lo with 0 <= lo < 2^16.                                 *)
(***************************************************************************)
LIMB == 2 ^ 16

I64(h, l) == <<h + (l \div LIMB), l % LIMB>>

N64(n) == I64(0, n)

Add64(a, b) == I64(a[1] + b[1], a[2] + b[2])

Sub64(a, b) == I64(a[1] - b[1], a[2] - b[2])

LT64(a, b) == a[1] < b[1] \/ (a[1] = b[1] /\ a[2] < b[2])

LE64(a, b) == ~LT64(b, a)

GT64(a, b) == LT64(b, a)

GE64(a, b) == ~LT64(a, b)

\* AV_NOPTS_VALUE is INT64_MIN: the least value, never a timestamp of the model.
AV_NOPTS_VALUE == <<-2147483647, 0>>

\* 0x7fffffff, the MP4 limit of the overflow guards
MP4_DTS_LIMIT == I64(32767, 65535)

\* 0x70000000, the "approaching the limit" threshold of the overflow guards
MP4_DTS_SAFE == I64(28672, 0)

\* the value the overflow guards reset DTS to
DTS_RESET == N64(1000)

\* pkt.duration > 10000000 is capped ...
MAX_PKT_DURATION == N64(10000000)

\* ... at 90000
CAPPED_PKT_DURATION == N64(90000)

\* av_gettime() counts microseconds
USEC == 1000000

\* return codes: 0 on success, negative on error
AVERROR_EOF == -541478725

AVERROR_EAGAIN == -11

AVERROR_EIO == -5

(***************************************************************************)
(* Bounds and input sets                                                   *)
(***************************************************************************)
\* packets handed to the writer by one record_segment call, and segments of
\* one session, when the timestamps vary
MaxTsPkts == 3

MaxTsSegs == 1

\* the same when the kinds of the packets and the time vary
MaxKeyPkts == 2

MaxKeySegs == 3

\* the clock runs from 1 s to MaxNow s
MaxNow == 4

\* seconds one av_read_frame may block
MaxDelta == 1

\* thread contexts one writer allocates
MaxCtx == 3

\* a supervised session: the clock runs from 1 s to MaxSupNow s, a file gets
\* at most MaxSupPkts packets, the session records at most MaxSupSegs segments
MaxSupNow == 6

MaxSupPkts == 1

MaxSupSegs == 2

\* packets of a segment of a long session
MaxLongPkts == 3

\* seconds of a long session
MaxLongNow == 90

\* segments that return in a run of the retry strategy
MaxRetryOps == 8

\* seconds a silent source is watched
MaxSilentNow == 8

\* packets of a file with several audio packets
MaxAudioPkts == 4

\* input timestamps: none, small ones, and one whose distance from the small
\* ones exceeds 0x7fffffff
TsIn == {AV_NOPTS_VALUE, N64(0), N64(10), I64(32768, 2000)}

\* segment durations the supervisor passes (always > 0, line 1007)
DurationArgs == {1, 2}

Streams == {"video", "audio"}

\* packets whose timestamps vary
TsPackets ==
    [stream : Streams, key : {TRUE}, dts : TsIn, pts : TsIn, duration : {N64(3000)}]

\* packets whose kind varies: key and non-key video frames, audio frames
KeyPackets ==
    {p \in [stream : Streams, key : BOOLEAN, dts : {N64(10)}, pts : {N64(10)},
            duration : {N64(3000)}] : p.stream = "audio" => p.key}

AnyPkt == [stream |-> "audio", key |-> TRUE, dts |-> N64(10), pts |-> N64(10),
           duration |-> N64(3000)]

VARIABLES
    rs,                  \* locals of the running record_segment call
    segment_info,        \* segment_info_t of the supervisor, passed by pointer
    waiting_start_time,  \* function-static of record_segment (line 339)
    input_ctx,           \* the supervisor's input slot: [handle, audio], and
                         \* history: open, the connection of the handle is
                         \* open; leaked, a connection was opened and neither
                         \* stored in the slot nor closed
    now,                 \* av_gettime(), microseconds
    shutdown_initiated,  \* is_shutdown_initiated()
    fl,                  \* history: packets written to the current output file
    prev_file,           \* history: how the preceding output file ended
    ctxs,                \* the mp4_writer_thread_t objects allocated so far
    threads,             \* the thread of each context: running, exited, joined
    writer,              \* the mp4_writer_t
    api,                 \* the caller of the control API
    sup,                 \* locals of mp4_writer_rtsp_thread
    segment_retry_count, \* function-static of mp4_writer_rtsp_thread (line 1012)
    catalog,             \* the recordings catalog: record id -> metadata
    oplog,               \* history: the add and finalize calls made to the catalog
    disk,                \* the output directory: path -> size, -1 if absent
    component_state      \* the writer's component in the shutdown coordinator

\* variables of the segment recorder alone
segVars == <<rs, waiting_start_time, fl, prev_file>>

\* variables of the supervisor and the control API alone
ctlVars == <<ctxs, threads, writer, api, sup, segment_retry_count, catalog, oplog,
             component_state>>

vars == <<rs, segment_info, waiting_start_time, input_ctx, now,
          shutdown_initiated, fl, prev_file, ctxs, threads, writer, api,
          sup, segment_retry_count, catalog, oplog, disk, component_state>>

NullCtx == [handle |-> 0, audio |-> FALSE, open |-> FALSE, leaked |-> FALSE]

NoPkt == [stream |-> "none", key |-> FALSE, dts |-> AV_NOPTS_VALUE,
          pts |-> AV_NOPTS_VALUE, duration |-> AV_NOPTS_VALUE, final |-> FALSE,
          in_dts |-> AV_NOPTS_VALUE, in_pts |-> AV_NOPTS_VALUE]

\* locals of record_segment as declared at lines 74-96 and 259-264
\* (last_video_dts, last_video_pts and video_packet_count are written and
\* never read, except for logging: they are left out); pb: output_ctx->pb
\* is set, the output file is open; history of the call: file_opened,
\* avio_open succeeded; header_written, avformat_write_header succeeded;
\* trailer_calls, the calls of av_write_trailer
RsIdle ==
    [pc |-> "idle", ret |-> 0, output_file |-> 0, duration |-> 0,
     out_audio_stream |-> FALSE,
     segment_index |-> 0,
     first_video_dts |-> AV_NOPTS_VALUE, first_video_pts |-> AV_NOPTS_VALUE,
     first_audio_dts |-> AV_NOPTS_VALUE, first_audio_pts |-> AV_NOPTS_VALUE,
     last_audio_dts |-> N64(0), last_audio_pts |-> N64(0),
     audio_packet_count |-> 0,
     start_time |-> 0,
     found_first_keyframe |-> FALSE, waiting_for_final_keyframe |-> FALSE,
     shutdown_detected |-> FALSE,
     pb |-> FALSE, file_opened |-> FALSE, header_written |-> FALSE,
     trailer_calls |-> 0]

\* history of one output file: per stream the last packet written and the
\* number of packets written, the kind of the first video packet written,
\* whether a video packet was handed to the writer, the number of packets
\* handed to the writer, trailers written; wfail: a write of the session failed;
\* wellformed: the input stamps of the packets written for the stream were
\* valid, within 2^31-1, PTS >= DTS, and their DTS never decreased
EmptyFile ==
    [open |-> FALSE,
     lastof |-> [s \in Streams |-> NoPkt],
     nw |-> [s \in Streams |-> 0],
     first_video |-> "none", video_submitted |-> FALSE, nsub |-> 0, trailers |-> 0,
     wfail |-> FALSE,
     wellformed |-> [s \in Streams |-> TRUE]]


(***************************************************************************)
(* Timestamp rebasing of record_segment                                    *)
(***************************************************************************)
\* lines 496-498 / 590-592: the first packet with a valid DTS sets first_dts
FirstDts(first_dts, pkt) ==
    IF first_dts = AV_NOPTS_VALUE /\ pkt.dts # AV_NOPTS_VALUE THEN pkt.dts ELSE first_dts

\* ... and first_pts = pts if valid, else dts
FirstPts(first_dts, first_pts, pkt) ==
    IF first_dts = AV_NOPTS_VALUE /\ pkt.dts # AV_NOPTS_VALUE
    THEN (IF pkt.pts # AV_NOPTS_VALUE THEN pkt.pts ELSE pkt.dts)
    ELSE first_pts

\* a rebaser without the tick of the later segments
RebaseTs_NoTick(ts, first, segment_index) ==
    IF ts # AV_NOPTS_VALUE /\ first # AV_NOPTS_VALUE THEN Sub64(ts, first) ELSE ts

\* lines 504-531 / 598-625, one timestamp: relative to the first one, clamped
\* at 0 in segment 0, plus one tick in later segments
RebaseTs(ts, first, segment_index) ==
    IF ts # AV_NOPTS_VALUE /\ first # AV_NOPTS_VALUE
    THEN IF segment_index = 0
         THEN (IF LT64(Sub64(ts, first), N64(0)) THEN N64(0) ELSE Sub64(ts, first))
         ELSE Add64(Sub64(ts, first), N64(1))
    ELSE ts

\* lines 535-539 / 407-411 / 638-640: PTS >= DTS
FixPtsDts(dts, pts) ==
    IF pts # AV_NOPTS_VALUE /\ dts # AV_NOPTS_VALUE /\ LT64(pts, dts) THEN dts ELSE pts

\* lines 415-446 / 644-672: the two-stage overflow guard
OverflowGuard(dts, pts) ==
    IF dts = AV_NOPTS_VALUE THEN [dts |-> dts, pts |-> pts]
    ELSE LET a == IF GT64(dts, MP4_DTS_LIMIT)
                  THEN [dts |-> DTS_RESET,
                        pts |-> IF pts # AV_NOPTS_VALUE
                                THEN (IF GE64(Sub64(pts, DTS_RESET), N64(0))
                                      THEN Add64(DTS_RESET, Sub64(pts, DTS_RESET))
                                      ELSE DTS_RESET)
                                ELSE DTS_RESET]
                  ELSE [dts |-> dts, pts |-> pts]
         IN  IF GT64(a.dts, MP4_DTS_SAFE)
             THEN [dts |-> DTS_RESET,
                   pts |-> IF a.pts # AV_NOPTS_VALUE THEN Add64(DTS_RESET, N64(1))
                           ELSE DTS_RESET]
             ELSE a

\* lines 495-539: the stamps of a video packet in the normal copy path
VideoCopyStamps(pkt, first_dts, first_pts, segment_index) ==
    LET fd == FirstDts(first_dts, pkt)
        fp == FirstPts(first_dts, first_pts, pkt)
        d  == RebaseTs(pkt.dts, fd, segment_index)
        p  == RebaseTs(pkt.pts, fp, segment_index)
    IN  [dts |-> d, pts |-> FixPtsDts(d, p)]

\* lines 367-446: the stamps of the final video packet
VideoFinalStamps(pkt, first_dts, first_pts, segment_index) ==
    LET fd == FirstDts(first_dts, pkt)
        fp == FirstPts(first_dts, first_pts, pkt)
        d  == RebaseTs(pkt.dts, fd, segment_index)
        p  == RebaseTs(pkt.pts, fp, segment_index)
    IN  OverflowGuard(d, FixPtsDts(d, p))

\* lines 628-641: audio monotonicity, applied from the second written packet on
AudioMonotonic(dts, pts, last_dts, last_pts, audio_packet_count) ==
    IF audio_packet_count > 0
    THEN LET d == IF dts # AV_NOPTS_VALUE /\ LE64(dts, last_dts)
                  THEN Add64(last_dts, N64(1)) ELSE dts
             p == IF pts # AV_NOPTS_VALUE /\ LE64(pts, last_pts)
                  THEN Add64(last_pts, N64(1)) ELSE pts
         IN  [dts |-> d, pts |-> FixPtsDts(d, p)]
    ELSE [dts |-> dts, pts |-> pts]

\* lines 589-672: the stamps of an audio packet
AudioStamps(pkt, first_dts, first_pts, segment_index, last_dts, last_pts, audio_packet_count) ==
    LET fd == FirstDts(first_dts, pkt)
        fp == FirstPts(first_dts, first_pts, pkt)
        d  == RebaseTs(pkt.dts, fd, segment_index)
        p  == RebaseTs(pkt.pts, fp, segment_index)
        m  == AudioMonotonic(d, p, last_dts, last_pts, audio_packet_count)
    IN  OverflowGuard(m.dts, m.pts)

\* av_rescale_q(1, 1/avg_frame_rate, time_base) of a 30 fps stream in a 1/90000
\* time base (lines 554-559)
VideoFrameDuration == N64(90000 \div 30)

\* av_rescale_q(1024, 1/sample_rate, time_base) of an audio stream whose time
\* base is 1/sample_rate (lines 721-723)
AudioFrameDuration == N64(1024)

\* lines 551-565 / 465-478: a missing video duration is synthesized
SynthVideoDuration(duration) ==
    IF duration = N64(0) \/ duration = AV_NOPTS_VALUE THEN VideoFrameDuration ELSE duration

\* lines 450-454: the duration cap, present in the final-packet path only
CapDuration(duration) ==
    IF GT64(duration, MAX_PKT_DURATION) THEN CAPPED_PKT_DURATION ELSE duration

\* lines 683-730
SynthAudioDuration(duration) ==
    IF duration = N64(0) \/ duration = AV_NOPTS_VALUE THEN AudioFrameDuration ELSE duration


(***************************************************************************)
(* record_segment                                                          *)
(***************************************************************************)
\* history: are the input stamps of the written packet w well formed after
\* those of the packet written before it for the same stream?
WellFormedInput(f, w) ==
    /\ w.in_dts # AV_NOPTS_VALUE
    /\ w.in_pts # AV_NOPTS_VALUE
    /\ LE64(w.in_dts, MP4_DTS_LIMIT)
    /\ GE64(w.in_pts, w.in_dts)
    /\ f.nw[w.stream] > 0 => GE64(w.in_dts, f.lastof[w.stream].in_dts)

\* history: one packet handed to av_interleaved_write_frame; it is written
\* when the call succeeds
LogWrite(f, w, wok) ==
    IF wok
    THEN [f EXCEPT !.lastof[w.stream] = w,
                   !.wellformed[w.stream] = @ /\ WellFormedInput(f, w),
                   !.nw[w.stream] = @ + 1,
                   !.nsub = @ + 1,
                   !.first_video = IF w.stream = "video" /\ f.first_video = "none"
                                   THEN (IF w.key THEN "key" ELSE "nonkey")
                                   ELSE f.first_video,
                   !.video_submitted = f.video_submitted \/ w.stream = "video"]
    ELSE [f EXCEPT !.video_submitted = f.video_submitted \/ w.stream = "video",
                   !.nsub = @ + 1,
                   !.wfail = TRUE]

\* history: whether the last video packet written before the current file
\* was a keyframe
LastVideoKey(f, before) ==
    IF f.lastof["video"].stream = "none" THEN before
    ELSE IF f.lastof["video"].key THEN "key" ELSE "nonkey"

SetupFailures == {"none", "open", "probe", "novideo", "alloc", "avio", "header"}

\* a cleanup that writes the trailer whenever the output file is open
CleanupTrailer_Always(pb, ret, trailer_written) == pb

\* line 787: the cleanup writes the trailer when the file is open, nothing
\* failed and the trailer was not written before
CleanupTrailer(pb, ret, trailer_written) == pb /\ ret >= 0 /\ ~trailer_written

\* a cleanup that closes the input connection and leaves its handle in the slot
CleanupInput_Closes(ctx) == [ctx EXCEPT !.open = FALSE]

\* lines 776-805: the cleanup does not touch the input connection
CleanupInput(ctx) == ctx

\* lines 96-264: the call up to the packet loop.  fail names the first step
\* that fails; every failure leaves through cleanup (lines 776-805) with
\* ret < 0, so no trailer is written and the file is closed if it was opened.
record_segment_call(output_file, duration, has_audio, fail, conn_audio) ==
    /\ rs.pc \in {"idle", "returned"}
    /\ fail \in {"open", "probe"} => input_ctx.handle = 0
    /\ conn_audio => input_ctx.handle = 0 /\ fail \notin {"open", "probe"}
    /\ input_ctx' = IF input_ctx.handle # 0 \/ fail = "open"
                    THEN (IF fail = "none" THEN input_ctx ELSE CleanupInput(input_ctx))
                    ELSE IF fail = "probe"
                    THEN CleanupInput([input_ctx EXCEPT !.leaked = TRUE])
                    ELSE LET stored == [handle |-> 1, audio |-> conn_audio, open |-> TRUE,
                                        leaked |-> input_ctx.leaked]
                         IN  IF fail = "none" THEN stored ELSE CleanupInput(stored)
    /\ IF fail = "none"
       THEN /\ rs' = [RsIdle EXCEPT !.pc = "loop",
                                    !.output_file = output_file,
                                    !.duration = duration,
                                    !.segment_index = segment_info.segment_index + 1,
                                    !.out_audio_stream = input_ctx'.audio /\ has_audio,
                                    !.start_time = now,
                                    !.pb = TRUE, !.file_opened = TRUE,
                                    !.header_written = TRUE]
            /\ prev_file' = LastVideoKey(fl, prev_file)
            /\ fl' = [EmptyFile EXCEPT !.open = TRUE, !.wfail = fl.wfail]
       ELSE /\ rs' = [RsIdle EXCEPT
                         !.pc = "returned", !.ret = -1,
                         !.file_opened = (fail = "header"),
                         !.trailer_calls =
                             IF CleanupTrailer(fail = "header", -1, FALSE) THEN 1 ELSE 0]
            /\ UNCHANGED <<fl, prev_file>>
    /\ disk' = IF fail = "none" THEN [disk EXCEPT ![output_file] = 1]
               ELSE IF fail = "header" THEN [disk EXCEPT ![output_file] = 0]
               ELSE disk
    /\ UNCHANGED <<segment_info, waiting_start_time, now, shutdown_initiated>>
    /\ UNCHANGED ctlVars

\* a packet loop that does not ask the shutdown coordinator
LoopTop_NoShutdownCheck(r, t) ==
    LET elapsed_seconds == (t - r.start_time) \div USEC
        w2 == r.waiting_for_final_keyframe
              \/ (r.duration > 0 /\ ~r.shutdown_detected
                  /\ (elapsed_seconds >= r.duration
                      \/ elapsed_seconds >= r.duration - 1))
    IN  [r EXCEPT !.waiting_for_final_keyframe = w2]

\* lines 268-290: the shutdown check and the duration check at the top of the
\* packet loop
LoopTop(r, t) ==
    LET sd == ~r.shutdown_detected /\ ~r.waiting_for_final_keyframe /\ shutdown_initiated
        w1 == r.waiting_for_final_keyframe \/ sd
        s1 == r.shutdown_detected \/ sd
        elapsed_seconds == (t - r.start_time) \div USEC
        w2 == w1 \/ (r.duration > 0 /\ ~w1 /\ ~s1
                     /\ (elapsed_seconds >= r.duration
                         \/ elapsed_seconds >= r.duration - 1))
    IN  [r EXCEPT !.waiting_for_final_keyframe = w2, !.shutdown_detected = s1]

\* lines 313-334: may this video packet start the file?
AcceptFirst(r, pkt) ==
    \/ segment_info.last_frame_was_key /\ r.segment_index > 0
    \/ pkt.key

\* lines 337-350: is this video packet the final one?
IsFinal(r, pkt, wst, t) ==
    r.waiting_for_final_keyframe /\ (pkt.key \/ (t - wst) \div USEC > 2)

\* lines 308-580: a video packet
ProcessVideo(r, pkt, t, wok) ==
    IF ~r.found_first_keyframe /\ ~AcceptFirst(r, pkt)
    THEN /\ rs' = r
         /\ UNCHANGED <<segment_info, waiting_start_time, fl>>
    ELSE LET r1  == IF r.found_first_keyframe THEN r
                    ELSE [r EXCEPT !.found_first_keyframe = TRUE, !.start_time = t]
             wst == IF r1.waiting_for_final_keyframe /\ waiting_start_time = 0
                    THEN t ELSE waiting_start_time
             r2  == [r1 EXCEPT !.first_video_dts = FirstDts(r.first_video_dts, pkt),
                               !.first_video_pts =
                                   FirstPts(r.first_video_dts, r.first_video_pts, pkt),
                               !.ret = IF wok THEN 0 ELSE AVERROR_EIO]
         IN  /\ waiting_start_time' = wst
             /\ IF IsFinal(r1, pkt, wst, t)
                THEN LET ts == VideoFinalStamps(pkt, r.first_video_dts,
                                                r.first_video_pts, r.segment_index)
                         w  == [stream |-> "video", key |-> pkt.key,
                                dts |-> ts.dts, pts |-> ts.pts,
                                duration |-> SynthVideoDuration(CapDuration(pkt.duration)),
                                final |-> TRUE,
                                in_dts |-> pkt.dts, in_pts |-> pkt.pts]
                     IN  /\ segment_info' = [segment_info EXCEPT !.last_frame_was_key = pkt.key]
                         /\ rs' = [r2 EXCEPT !.pc = "finalizing"]
                         /\ fl' = LogWrite(fl, w, wok)
                ELSE LET ts == VideoCopyStamps(pkt, r.first_video_dts,
                                               r.first_video_pts, r.segment_index)
                         w  == [stream |-> "video", key |-> pkt.key,
                                dts |-> ts.dts, pts |-> ts.pts,
                                duration |-> SynthVideoDuration(pkt.duration),
                                final |-> FALSE,
                                in_dts |-> pkt.dts, in_pts |-> pkt.pts]
                     IN  /\ rs' = r2
                         /\ fl' = LogWrite(fl, w, wok)
                         /\ UNCHANGED segment_info

\* a recorder that copies audio from the start of the file
AudioSkipped_NoWait(r) == ~r.out_audio_stream

\* lines 582-587: an audio packet is dropped when audio is not copied, and
\* until the first video packet of the file was accepted
AudioSkipped(r) == ~r.out_audio_stream \/ ~r.found_first_keyframe

\* lines 582-745: an audio packet (packets of a stream that is not copied are
\* dropped at line 748)
ProcessAudio(r, pkt, t, wok) ==
    IF AudioSkipped(r)
    THEN /\ rs' = r
         /\ UNCHANGED <<segment_info, waiting_start_time, fl>>
    ELSE LET ts == AudioStamps(pkt, r.first_audio_dts, r.first_audio_pts,
                               r.segment_index, r.last_audio_dts, r.last_audio_pts,
                               r.audio_packet_count)
             w  == [stream |-> "audio", key |-> pkt.key, dts |-> ts.dts, pts |-> ts.pts,
                    duration |-> SynthAudioDuration(pkt.duration), final |-> FALSE,
                    in_dts |-> pkt.dts, in_pts |-> pkt.pts]
         IN  /\ rs' = [r EXCEPT
                         !.first_audio_dts = FirstDts(r.first_audio_dts, pkt),
                         !.first_audio_pts =
                             FirstPts(r.first_audio_dts, r.first_audio_pts, pkt),
                         !.last_audio_dts =
                             IF ts.dts # AV_NOPTS_VALUE THEN ts.dts ELSE @,
                         !.last_audio_pts =
                             IF ts.pts # AV_NOPTS_VALUE THEN ts.pts ELSE @,
                         !.audio_packet_count = IF wok THEN @ + 1 ELSE @,
                         !.ret = IF wok THEN 0 ELSE AVERROR_EIO]
             /\ fl' = LogWrite(fl, w, wok)
             /\ UNCHANGED <<segment_info, waiting_start_time>>

\* lines 267-749: one iteration of the packet loop.  av_read_frame blocks for
\* delta seconds and returns ret; wok is the result of the write, if any.
record_segment_iteration(delta, ret, pkt, wok) ==
    /\ rs.pc = "loop"
    /\ now' = now + delta * USEC
    /\ LET r == LoopTop(rs, now)
       IN  IF ret = AVERROR_EAGAIN
           THEN /\ rs' = [r EXCEPT !.ret = ret]
                /\ UNCHANGED <<segment_info, waiting_start_time, fl>>
           ELSE IF ret < 0
           THEN /\ rs' = [r EXCEPT !.ret = ret, !.pc = "finalizing"]
                /\ UNCHANGED <<segment_info, waiting_start_time, fl>>
           ELSE LET r0 == [r EXCEPT !.ret = 0]
                IN  IF pkt.stream = "video"
                    THEN ProcessVideo(r0, pkt, now', wok)
                    ELSE ProcessAudio(r0, pkt, now', wok)
    /\ disk' = [disk EXCEPT ![rs.output_file] = @ + (fl'.nw["video"] - fl.nw["video"])
                                                  + (fl'.nw["audio"] - fl.nw["audio"])]
    /\ UNCHANGED <<input_ctx, shutdown_initiated, prev_file>>
    /\ UNCHANGED ctlVars

\* lines 751-806: trailer, segment info, cleanup and return.  tok is the
\* result of av_write_trailer.
record_segment_finish(tok) ==
    /\ rs.pc = "finalizing"
    /\ LET ret == IF tok THEN 0 ELSE AVERROR_EIO
           trailer_written == tok
           again == CleanupTrailer(rs.pb, ret, trailer_written)
       IN  /\ rs' = [RsIdle EXCEPT !.pc = "returned", !.ret = ret,
                                    !.file_opened = TRUE, !.header_written = TRUE,
                                    !.trailer_calls = 1 + (IF again THEN 1 ELSE 0)]
           /\ disk' = [disk EXCEPT ![rs.output_file] = @ + (IF tok THEN 1 ELSE 0)]
           /\ fl' = [fl EXCEPT !.open = FALSE,
                               !.trailers = @ + (IF tok THEN 1 ELSE 0)
                                              + (IF again THEN 1 ELSE 0)]
    /\ segment_info' = [segment_info EXCEPT !.segment_index = rs.segment_index,
                                            !.has_audio = rs.out_audio_stream]
    /\ input_ctx' = CleanupInput(input_ctx)
    /\ UNCHANGED <<waiting_start_time, now, shutdown_initiated, prev_file>>
    /\ UNCHANGED ctlVars

\* the external shutdown coordinator starts the shutdown
InitiateShutdown ==
    /\ ~shutdown_initiated
    /\ shutdown_initiated' = TRUE
    /\ UNCHANGED <<segment_info, input_ctx, now, disk>>
    /\ UNCHANGED segVars
    /\ UNCHANGED ctlVars

(***************************************************************************)
(* The recordings catalog, the output directory and the writer             *)
(***************************************************************************)
\* add_recording_metadata: a new record under the next id, or nothing
add_recording_metadata(cat, path, ok) ==
    IF ok THEN Append(cat, [path |-> path, size |-> 0, is_complete |-> FALSE]) ELSE cat

\* the value add_recording_metadata returns: the new id, 0 when it failed
AddedId(cat, ok) == IF ok THEN Len(cat) + 1 ELSE 0

\* update_recording_metadata(id, end_time, size_bytes, is_complete)
update_recording_metadata(cat, id, size, is_complete) ==
    [cat EXCEPT ![id] = [@ EXCEPT !.size = size, !.is_complete = is_complete]]

\* output paths: 0 is the path the writer was created with, t is
\* recording_<t>.mp4, named after the second of its rotation (lines 922-930)
Paths == 0 .. MaxSupNow

\* stat(path): the size, 0 when the file does not exist (lines 964-981)
StatSize(d, path) == IF d[path] >= 0 THEN d[path] ELSE 0

Ctxs == 1 .. MaxCtx

NoThreadCtx == [state |-> "unused", running |-> FALSE, shutdown_requested |-> FALSE]

\* lines 1131-1133: a context as start initializes it
NewThreadCtx == [state |-> "live", running |-> TRUE, shutdown_requested |-> FALSE]

\* locals of mp4_writer_rtsp_thread; path_of_ret is history: the output path
\* of the record_segment call that returned ret
SupIdle ==
    [pc |-> "none", ctx |-> 0, ret |-> 0, segment_duration |-> 0, current_time |-> 0,
     new_path |-> 0, new_recording_id |-> 0, path_of_ret |-> 0]

ApiIdle == [pc |-> "idle", thread_ctx |-> 0]

\* the writer as mp4_writer_create leaves it, with its first output path
NewWriter(segment_duration, t) ==
    [output_path |-> 0, current_recording_id |-> 0,
     segment_duration |-> segment_duration, has_audio |-> FALSE,
     last_rotation_time |-> t, last_packet_time |-> 0,
     thread_ctx |-> 0, shutdown_component_id |-> -1, is_rotating |-> FALSE]

\* a writer without a worker
InitWriter ==
    /\ ctxs = [c \in Ctxs |-> NoThreadCtx]
    /\ threads = [c \in Ctxs |-> "none"]
    /\ writer = NewWriter(0, 1)
    /\ api = ApiIdle
    /\ sup = SupIdle
    /\ segment_retry_count = 0
    /\ catalog = <<>>
    /\ oplog = <<>>
    /\ disk = [p \in Paths |-> -1]
    /\ component_state = "none"

(***************************************************************************)
(* mp4_writer_rtsp_thread                                                  *)
(***************************************************************************)
\* what the worker leaves unchanged outside its own steps
SupFrame ==
    /\ UNCHANGED <<api, component_state, shutdown_initiated>>
    /\ UNCHANGED segVars

\* get_stream_config_by_name: not found, or the configuration of the stream
NoConfig == [found |-> FALSE, segment_duration |-> 0, record_audio |-> FALSE]

DbConfigs == {NoConfig, [found |-> TRUE, segment_duration |-> 1, record_audio |-> FALSE]}

\* lines 813-868: the initial metadata record and the early exit
Sup_Begin(add_ok) ==
    /\ sup.pc = "start"
    /\ catalog' = add_recording_metadata(catalog, writer.output_path, add_ok)
    /\ oplog' = Append(oplog, [op |-> "add", path |-> writer.output_path,
                               id |-> AddedId(catalog, add_ok), next |-> writer.output_path])
    /\ writer' = IF AddedId(catalog, add_ok) # 0
                 THEN [writer EXCEPT !.current_recording_id = AddedId(catalog, add_ok)]
                 ELSE writer
    /\ IF ~ctxs[sup.ctx].running \/ ctxs[sup.ctx].shutdown_requested
       THEN /\ sup' = [sup EXCEPT !.pc = "exited"]
            /\ threads' = [threads EXCEPT ![sup.ctx] = "exited"]
            /\ UNCHANGED segment_info
       ELSE /\ sup' = [sup EXCEPT !.pc = "loop"]
            /\ segment_info' = [segment_index |-> 0, has_audio |-> FALSE,
                                last_frame_was_key |-> FALSE]
            /\ UNCHANGED threads
    /\ UNCHANGED <<ctxs, segment_retry_count, disk, input_ctx, now>>
    /\ SupFrame

\* lines 871-935: the loop condition, the shutdown poll, the configuration,
\* the rotation check and the name of the next file
Sup_LoopTop(db, first_step) ==
    /\ sup.pc = "loop"
    /\ IF ~(ctxs[sup.ctx].running /\ ~ctxs[sup.ctx].shutdown_requested)
       THEN /\ sup' = [sup EXCEPT !.pc = "cleanup"]
            /\ UNCHANGED <<ctxs, writer>>
       ELSE IF shutdown_initiated
       THEN /\ ctxs' = [ctxs EXCEPT ![sup.ctx].running = FALSE]
            /\ sup' = [sup EXCEPT !.pc = "cleanup"]
            /\ UNCHANGED writer
       ELSE LET current_time == now \div USEC
                segment_duration ==
                    IF db.found /\ db.segment_duration > 0
                    THEN db.segment_duration ELSE writer.segment_duration
                rotate == /\ segment_duration > 0
                          /\ current_time - writer.last_rotation_time >= segment_duration
            IN  /\ writer' = [writer EXCEPT
                                !.segment_duration = segment_duration,
                                !.has_audio = IF db.found THEN db.record_audio ELSE @]
                /\ sup' = [sup EXCEPT !.pc = IF rotate THEN first_step ELSE "record",
                                      !.segment_duration = segment_duration,
                                      !.current_time = current_time,
                                      !.new_path = IF rotate THEN current_time ELSE @]
                /\ UNCHANGED ctxs
    /\ UNCHANGED <<threads, segment_retry_count, catalog, oplog, disk, segment_info,
                   input_ctx, now>>
    /\ SupFrame

\* lines 937-956: the metadata record of the new file
Sup_RotateAdd(add_ok, next_step) ==
    /\ sup.pc = "rotate_add"
    /\ catalog' = add_recording_metadata(catalog, sup.new_path, add_ok)
    /\ oplog' = Append(oplog, [op |-> "add", path |-> sup.new_path,
                               id |-> AddedId(catalog, add_ok), next |-> sup.new_path])
    /\ sup' = [sup EXCEPT !.pc = next_step,
                          !.new_recording_id = AddedId(catalog, add_ok)]
    /\ UNCHANGED <<ctxs, threads, writer, segment_retry_count, disk, segment_info,
                   input_ctx, now>>
    /\ SupFrame

\* lines 958-982: the record of the current file is marked complete, with the
\* size of the file, or 0 when stat fails
Sup_RotateFinalize(next_step) ==
    /\ sup.pc = "rotate_finalize"
    /\ IF writer.current_recording_id > 0
       THEN /\ catalog' = update_recording_metadata(catalog, writer.current_recording_id,
                                                    StatSize(disk, writer.output_path), TRUE)
            /\ oplog' = Append(oplog, [op |-> "finalize", path |-> writer.output_path,
                                       id |-> writer.current_recording_id,
                                       next |-> sup.new_path])
       ELSE UNCHANGED <<catalog, oplog>>
    /\ sup' = [sup EXCEPT !.pc = next_step]
    /\ UNCHANGED <<ctxs, threads, writer, segment_retry_count, disk, segment_info,
                   input_ctx, now>>
    /\ SupFrame

\* lines 984-995: the writer moves to the new file
Sup_RotateSwitch ==
    /\ sup.pc = "rotate_switch"
    /\ writer' = [writer EXCEPT
                    !.output_path = sup.new_path,
                    !.current_recording_id =
                        IF sup.new_recording_id > 0 THEN sup.new_recording_id ELSE @,
                    !.last_rotation_time = sup.current_time]
    /\ sup' = [sup EXCEPT !.pc = "record"]
    /\ UNCHANGED <<ctxs, threads, segment_retry_count, catalog, oplog, disk,
                   segment_info, input_ctx, now>>
    /\ SupFrame

\* a rotation that finalizes the record of the current file first
RotationOrder_FinalizeFirst(step) ==
    CASE step = "rotate" -> "rotate_finalize"
      [] step = "rotate_finalize" -> "rotate_add"
      [] step = "rotate_add" -> "rotate_switch"

\* a rotation that never finalizes the record of the current file
RotationOrder_NoFinalize(step) ==
    CASE step = "rotate" -> "rotate_add"
      [] step = "rotate_add" -> "rotate_switch"
      [] step = "rotate_finalize" -> "rotate_switch"

\* lines 937-995: the steps of a rotation in the order of the code: the record
\* of the new file is added (937-956), then the record of the current file is
\* finalized (958-982), then the writer moves to the new file (984-995)
RotationOrder(step) ==
    CASE step = "rotate" -> "rotate_add"
      [] step = "rotate_add" -> "rotate_finalize"
      [] step = "rotate_finalize" -> "rotate_switch"

\* line 1007: the duration used when none is configured
DefaultSegmentDuration == 30

\* lines 998-1017: the call of record_segment
Sup_Record(fail, conn_audio) ==
    /\ sup.pc = "record"
    /\ rs.pc = "idle"
    /\ record_segment_call(writer.output_path,
                           IF sup.segment_duration > 0 THEN sup.segment_duration
                           ELSE DefaultSegmentDuration,
                           writer.has_audio, fail, conn_audio)

\* lines 1050-1054 / 1101-1108: avformat_close_input on the connection of the
\* slot, which is set to NULL
CloseInput(ctx) == [NullCtx EXCEPT !.leaked = ctx.leaked]

\* a backoff of one second whatever the number of failures
Backoff_Constant(retries) == 1

\* line 1030: 1 << min(segment_retry_count, 4), at most 30
Backoff(retries) ==
    LET b == 2 ^ (IF retries > 4 THEN 4 ELSE retries)
    IN  IF b > 30 THEN 30 ELSE b

\* line 1043: more consecutive failures than this close the connection
MaxSegmentRetries == 5

\* line 1055: the sleep of the aggressive recovery
AggressiveBackoff == 5

\* lines 1019-1070: the retry strategy after record_segment returned ret with
\* the counter at count: the new counter, the sleep, and whether the input
\* connection is closed
RetryStrategy(count, ret) ==
    LET retries == count + 1
        aggressive == ret < 0 /\ retries > MaxSegmentRetries
    IN  [segment_retry_count |-> IF ret < 0 THEN retries ELSE 0,
         backoff_seconds |-> IF ret >= 0 THEN 0
                             ELSE IF aggressive THEN AggressiveBackoff
                             ELSE Backoff(count),
         aggressive |-> aggressive]

\* lines 1019-1086: after record_segment returned: the retry strategy with its
\* sleep, last_packet_time and the interim metadata update
Sup_After ==
    /\ sup.pc = "record"
    /\ rs.pc = "returned"
    /\ LET ret == rs.ret
           retry == RetryStrategy(segment_retry_count, ret)
       IN  /\ now' = now + retry.backoff_seconds * USEC
           /\ segment_retry_count' = retry.segment_retry_count
           /\ input_ctx' = IF retry.aggressive THEN CloseInput(input_ctx) ELSE input_ctx
           /\ sup' = [sup EXCEPT !.pc = "loop", !.ret = ret,
                                 !.path_of_ret = writer.output_path]
    /\ rs' = RsIdle
    /\ writer' = [writer EXCEPT !.last_packet_time = now' \div USEC]
    /\ catalog' = IF writer.current_recording_id > 0 /\ disk[writer.output_path] >= 0
                  THEN update_recording_metadata(catalog, writer.current_recording_id,
                                                 disk[writer.output_path], FALSE)
                  ELSE catalog
    /\ UNCHANGED <<ctxs, threads, api, oplog, disk, component_state, segment_info,
                   shutdown_initiated, waiting_start_time, fl, prev_file>>

\* lines 1089-1111: the connection is closed and the thread ends
Sup_Cleanup ==
    /\ sup.pc = "cleanup"
    /\ input_ctx' = CloseInput(input_ctx)
    /\ sup' = [sup EXCEPT !.pc = "exited"]
    /\ threads' = [threads EXCEPT ![sup.ctx] = "exited"]
    /\ UNCHANGED <<ctxs, writer, segment_retry_count, catalog, oplog, disk,
                   segment_info, now>>
    /\ SupFrame

(***************************************************************************)
(* mp4_writer_start_recording_thread                                       *)
(***************************************************************************)
\* what the control API leaves unchanged
ApiFrame ==
    /\ UNCHANGED <<sup, segment_retry_count, catalog, oplog, disk, segment_info,
                   input_ctx, now, shutdown_initiated>>
    /\ UNCHANGED segVars

\* lines 1144-1153: the writer once start stored the context and registered
Started(w, c, component_id) ==
    [w EXCEPT !.thread_ctx = c, !.shutdown_component_id = component_id]

\* calloc returns memory that is not in use
FreshCtx == CHOOSE c \in Ctxs : ctxs[c].state = "unused" /\ \A d \in 1 .. c - 1 : ctxs[d].state # "unused"

StartOutcomes == {"ok", "nomem", "nothread"}

\* lines 1118-1165: outcome tells whether calloc or pthread_create failed,
\* component_id is what register_component returns.  A context that was
\* allocated and freed at once leaves no trace.
start_recording_thread(outcome, component_id) ==
    /\ api.pc = "idle"
    /\ \E c \in Ctxs : ctxs[c].state = "unused"
    /\ IF outcome = "ok"
       THEN /\ ctxs' = [ctxs EXCEPT ![FreshCtx] = NewThreadCtx]
            /\ threads' = [threads EXCEPT ![FreshCtx] = "running"]
            /\ writer' = Started(writer, FreshCtx, component_id)
            /\ component_state' = IF component_id >= 0 THEN "registered"
                                  ELSE component_state
       ELSE UNCHANGED <<ctxs, threads, writer, component_state>>
    /\ UNCHANGED api
    /\ ApiFrame

\* a thread that has not returned
Alive(c) == threads[c] \in {"running", "detached"}

\* lines 860-863, 871-877 and 1110-1111: a worker, seen from outside: it
\* returns once its flags tell it to or the system shuts down
worker_returns(c) ==
    /\ Alive(c)
    /\ ~ctxs[c].running \/ ctxs[c].shutdown_requested \/ shutdown_initiated
    /\ ctxs' = [ctxs EXCEPT ![c].running = FALSE]
    /\ threads' = [threads EXCEPT ![c] = "exited"]
    /\ UNCHANGED <<writer, api, component_state>>
    /\ ApiFrame

(***************************************************************************)
(* mp4_writer_stop_recording_thread                                        *)
(***************************************************************************)
\* lines 1171-1196: the flags that tell the worker to stop
stop_signal ==
    /\ api.pc = "idle"
    /\ writer.thread_ctx # 0
    /\ ctxs' = [ctxs EXCEPT ![writer.thread_ctx].running = FALSE,
                            ![writer.thread_ctx].shutdown_requested = TRUE]
    /\ api' = [pc |-> "stop_join", thread_ctx |-> writer.thread_ctx]
    /\ UNCHANGED <<threads, writer, component_state>>
    /\ ApiFrame

\* a stop that frees the context whether or not the join succeeded
stop_join_FreeAlways(join_result) ==
    /\ api.pc = "stop_join"
    /\ join_result = 0 <=> threads[api.thread_ctx] = "exited"
    /\ ctxs' = [ctxs EXCEPT ![api.thread_ctx].state = "freed"]
    /\ threads' = [threads EXCEPT ![api.thread_ctx] =
                       IF join_result # 0 THEN "detached" ELSE "joined"]
    /\ writer' = [writer EXCEPT !.thread_ctx = 0]
    /\ api' = [api EXCEPT !.pc = "stop_notify"]
    /\ UNCHANGED component_state
    /\ ApiFrame

\* a stop that joins the worker without a timeout
stop_join_NoTimeout(join_result) ==
    /\ api.pc = "stop_join"
    /\ join_result = 0
    /\ threads[api.thread_ctx] = "exited"
    /\ ctxs' = [ctxs EXCEPT ![api.thread_ctx].state = "freed"]
    /\ threads' = [threads EXCEPT ![api.thread_ctx] = "joined"]
    /\ writer' = [writer EXCEPT !.thread_ctx = 0]
    /\ api' = [api EXCEPT !.pc = "stop_notify"]
    /\ UNCHANGED component_state
    /\ ApiFrame

\* lines 1198-1220: pthread_join_with_timeout returns 0 when the thread ended
\* within 5 seconds; otherwise the thread is detached and the context is kept
stop_join(join_result) ==
    /\ api.pc = "stop_join"
    /\ join_result = 0 <=> threads[api.thread_ctx] = "exited"
    /\ IF join_result # 0
       THEN /\ threads' = [threads EXCEPT ![api.thread_ctx] = "detached"]
            /\ UNCHANGED ctxs
       ELSE /\ ctxs' = [ctxs EXCEPT ![api.thread_ctx].state = "freed"]
            /\ threads' = [threads EXCEPT ![api.thread_ctx] = "joined"]
    /\ writer' = [writer EXCEPT !.thread_ctx = 0]
    /\ api' = [api EXCEPT !.pc = "stop_notify"]
    /\ UNCHANGED component_state
    /\ ApiFrame

\* a stop that tells the shutdown coordinator only after a clean join
stop_notify_JoinedOnly ==
    /\ api.pc = "stop_notify"
    /\ component_state' = IF /\ writer.shutdown_component_id >= 0
                             /\ threads[api.thread_ctx] = "joined"
                          THEN "stopped"
                          ELSE component_state
    /\ api' = ApiIdle
    /\ UNCHANGED <<ctxs, threads, writer>>
    /\ ApiFrame

\* lines 1222-1231: the shutdown coordinator is told the component stopped
stop_notify ==
    /\ api.pc = "stop_notify"
    /\ component_state' = IF writer.shutdown_component_id >= 0 THEN "stopped"
                          ELSE component_state
    /\ api' = ApiIdle
    /\ UNCHANGED <<ctxs, threads, writer>>
    /\ ApiFrame

(***************************************************************************)
(* mp4_writer_is_recording                                                 *)
(***************************************************************************)
\* the rotation code of the writer sets and clears the rotation flag
set_rotating(b) ==
    /\ writer.is_rotating # b
    /\ writer' = [writer EXCEPT !.is_rotating = b]
    /\ UNCHANGED <<ctxs, threads, api, component_state>>
    /\ ApiFrame

\* an is_recording that does not look at the rotation flag
is_recording_IgnoresRotation ==
    IF writer.thread_ctx = 0 THEN 0
    ELSE IF ctxs[writer.thread_ctx].running THEN 1 ELSE 0

\* lines 1236-1252: what mp4_writer_is_recording(writer) returns
is_recording ==
    IF writer.is_rotating THEN 1
    ELSE IF writer.thread_ctx = 0 THEN 0
    ELSE IF ctxs[writer.thread_ctx].running THEN 1 ELSE 0

(***************************************************************************)
(* The segment recorder, called again and again by one supervisor          *)
(***************************************************************************)
InitSeg ==
    /\ rs = RsIdle
    /\ segment_info = [segment_index |-> 0, has_audio |-> FALSE,
                       last_frame_was_key |-> FALSE]
    /\ waiting_start_time = 0
    /\ input_ctx = NullCtx
    /\ now = USEC
    /\ shutdown_initiated = FALSE
    /\ fl = EmptyFile
    /\ prev_file = "none"
    /\ InitWriter

CallSegment ==
    \E duration \in DurationArgs, has_audio \in BOOLEAN, fail \in SetupFailures,
       conn_audio \in BOOLEAN :
        record_segment_call(writer.output_path, duration, has_audio, fail, conn_audio)

\* av_read_frame: end of stream, try again, or another error
ReadError(delta) ==
    \E ret \in {AVERROR_EOF, AVERROR_EAGAIN, AVERROR_EIO} :
        record_segment_iteration(delta, ret, AnyPkt, TRUE)

FinishSegment == \E tok \in BOOLEAN : record_segment_finish(tok)

\* the source delivers packets with arbitrary timestamps, without delay
CallTsSegment == segment_info.segment_index < MaxTsSegs /\ CallSegment

ReadTsPacket ==
    /\ fl.nsub < MaxTsPkts
    /\ \E pkt \in TsPackets, wok \in BOOLEAN : record_segment_iteration(0, 0, pkt, wok)

ReadTsError == ReadError(0)

NextTs ==
    CallTsSegment \/ ReadTsPacket \/ ReadTsError \/ FinishSegment \/ InitiateShutdown

SpecTs == InitSeg /\ [][NextTs]_vars

\* the source delivers key frames, other frames and audio, each after a delay
CallKeySegment == segment_info.segment_index < MaxKeySegs /\ CallSegment

ReadKeyPacket ==
    /\ fl.nsub < MaxKeyPkts
    /\ \E delta \in 0 .. MaxDelta, pkt \in KeyPackets, wok \in BOOLEAN :
           /\ now + delta * USEC <= MaxNow * USEC
           /\ record_segment_iteration(delta, 0, pkt, wok)

ReadKeyError ==
    \E delta \in 0 .. MaxDelta :
        now + delta * USEC <= MaxNow * USEC /\ ReadError(delta)

NextKey ==
    CallKeySegment \/ ReadKeyPacket \/ ReadKeyError \/ FinishSegment \/ InitiateShutdown

SpecKey == InitSeg /\ [][NextKey]_vars

(***************************************************************************)
(* One session: a worker from its start to its exit, and the stop call     *)
(***************************************************************************)
\* the state start leaves: the worker of context 1 is about to run.  The
\* retry counter is a static of the function, shared by the workers of all
\* writers, so that it has any value when a worker starts.
InitSup ==
    /\ rs = RsIdle
    /\ segment_info = [segment_index |-> 0, has_audio |-> FALSE,
                       last_frame_was_key |-> FALSE]
    /\ waiting_start_time = 0
    /\ input_ctx = NullCtx
    /\ now = USEC
    /\ shutdown_initiated = FALSE
    /\ fl = EmptyFile
    /\ prev_file = "none"
    /\ ctxs = [c \in Ctxs |-> IF c = 1 THEN NewThreadCtx ELSE NoThreadCtx]
    /\ threads = [c \in Ctxs |-> IF c = 1 THEN "running" ELSE "none"]
    /\ \E d \in {0, 2} : writer = Started(NewWriter(d, 1), 1, 0)
    /\ api = ApiIdle
    /\ sup = [SupIdle EXCEPT !.pc = "start", !.ctx = 1]
    /\ segment_retry_count \in {0, MaxSegmentRetries}
    /\ catalog = <<>>
    /\ oplog = <<>>
    /\ disk = [p \in Paths |-> -1]
    /\ component_state = "registered"

\* the one packet of a supervised segment
SupPackets == {[stream |-> "video", key |-> TRUE, dts |-> N64(10), pts |-> N64(10),
                duration |-> N64(3000)]}

JoinResults == {0, 110}

\* the setup of a supervised segment succeeds, fails before the file is
\* opened, or fails after it
SupFailures == {"none", "open", "header"}

SupBegin == \E add_ok \in BOOLEAN : Sup_Begin(add_ok)

SupLoopTop == \E db \in DbConfigs : Sup_LoopTop(db, RotationOrder("rotate"))

SupRotateAdd == \E add_ok \in BOOLEAN : Sup_RotateAdd(add_ok, RotationOrder("rotate_add"))

SupRotateFinalize == Sup_RotateFinalize(RotationOrder("rotate_finalize"))

SupRecord ==
    /\ segment_info.segment_index < MaxSupSegs
    /\ \E fail \in SupFailures : Sup_Record(fail, FALSE)

ReadSupPacket ==
    /\ fl.nsub < MaxSupPkts
    /\ \E delta \in 0 .. MaxDelta, pkt \in SupPackets :
           /\ now + delta * USEC <= MaxSupNow * USEC
           /\ record_segment_iteration(delta, 0, pkt, TRUE)

ReadSupError ==
    \E delta \in 0 .. MaxDelta :
        now + delta * USEC <= MaxSupNow * USEC /\ ReadError(delta)

\* the sleep of the retry strategy ends within the time of the session
SupAfter ==
    /\ now + RetryStrategy(segment_retry_count, rs.ret).backoff_seconds * USEC
           <= MaxSupNow * USEC
    /\ Sup_After

StopJoin == \E join_result \in JoinResults : stop_join(join_result)

NextSup ==
    \/ SupBegin \/ SupLoopTop \/ SupRotateAdd \/ SupRotateFinalize \/ Sup_RotateSwitch
    \/ SupRecord \/ ReadSupPacket \/ ReadSupError \/ FinishSegment
    \/ SupAfter \/ Sup_Cleanup
    \/ InitiateShutdown \/ stop_signal \/ StopJoin \/ stop_notify

SpecSup == InitSup /\ [][NextSup]_vars

(***************************************************************************)
(* One session whose source keeps delivering video frames: every read      *)
(* returns a video packet after a positive delay, the worker thread and    *)
(* the recorder are scheduled again and again                              *)
(***************************************************************************)
LivePackets ==
    {[stream |-> "video", key |-> k, dts |-> N64(10), pts |-> N64(10),
      duration |-> N64(3000)] : k \in BOOLEAN}

ReadLiveVideo ==
    \E delta \in 1 .. MaxDelta, pkt \in LivePackets :
        /\ now + delta * USEC <= MaxSupNow * USEC
        /\ record_segment_iteration(delta, 0, pkt, TRUE)

SupLiveRecord ==
    /\ segment_info.segment_index < MaxSupSegs
    /\ Sup_Record("none", FALSE)

NextLive ==
    \/ SupBegin \/ SupLoopTop \/ SupRotateAdd \/ SupRotateFinalize \/ Sup_RotateSwitch
    \/ SupLiveRecord \/ ReadLiveVideo \/ FinishSegment
    \/ SupAfter \/ Sup_Cleanup
    \/ InitiateShutdown

SpecLive ==
    /\ InitSup
    /\ [][NextLive]_vars
    /\ WF_vars(ReadLiveVideo)
    /\ WF_vars(FinishSegment)
    /\ WF_vars(SupAfter)
    /\ WF_vars(SupLoopTop)
    /\ WF_vars(Sup_Cleanup)

(***************************************************************************)
(* One session of a writer without a segment duration, long enough for the *)
(* default duration to pass: the source delivers video frames at once or   *)
(* after a pause of a second less than the default duration                *)
(***************************************************************************)
InitLong == InitSup /\ writer.segment_duration = 0

\* the configuration store has no record of the stream
SupLongLoopTop == Sup_LoopTop(NoConfig, RotationOrder("rotate"))

ReadLongVideo ==
    /\ fl.nsub < MaxLongPkts
    /\ \E delta \in {0, DefaultSegmentDuration - 1}, pkt \in LivePackets :
           /\ now + delta * USEC <= MaxLongNow * USEC
           /\ record_segment_iteration(delta, 0, pkt, TRUE)

NextLong ==
    \/ SupBegin \/ SupLongLoopTop \/ SupLiveRecord \/ ReadLongVideo \/ FinishSegment
    \/ Sup_After \/ Sup_Cleanup \/ InitiateShutdown

SpecLong == InitLong /\ [][NextLong]_vars

(***************************************************************************)
(* One session of a source whose streams cannot always be probed: the      *)
(* connection is made, and avformat_find_stream_info fails or succeeds     *)
(***************************************************************************)
SupProbeRecord ==
    /\ segment_info.segment_index < MaxSupSegs
    /\ \E fail \in {"none", "probe"} : Sup_Record(fail, FALSE)

NextProbe ==
    \/ SupBegin \/ SupLongLoopTop \/ SupProbeRecord \/ ReadSupPacket \/ ReadSupError
    \/ FinishSegment \/ SupAfter \/ Sup_Cleanup \/ InitiateShutdown

SpecProbe == InitLong /\ [][NextProbe]_vars

(***************************************************************************)
(* A source whose packets declare no duration, a usual one, or one above   *)
(* 10,000,000 ticks                                                        *)
(***************************************************************************)
DurPackets ==
    [stream : Streams, key : {TRUE}, dts : {N64(10)}, pts : {N64(10)},
     duration : {N64(0), N64(3000), Add64(MAX_PKT_DURATION, MAX_PKT_DURATION)}]

ReadDurPacket ==
    /\ fl.nsub < MaxTsPkts
    /\ \E pkt \in DurPackets : record_segment_iteration(0, 0, pkt, TRUE)

NextDur ==
    CallTsSegment \/ ReadDurPacket \/ ReadTsError \/ FinishSegment \/ InitiateShutdown

SpecDur == InitSeg /\ [][NextDur]_vars

(***************************************************************************)
(* A source whose stamps jump by more than 2^31: enough packets for three  *)
(* audio packets after the key frame that starts the file                  *)
(***************************************************************************)
JumpPackets == {p \in TsPackets : p.dts = p.pts /\ p.dts \in {N64(0), I64(32768, 2000)}}

ReadJumpPacket ==
    /\ fl.nsub < MaxAudioPkts
    /\ \E pkt \in JumpPackets : record_segment_iteration(0, 0, pkt, TRUE)

NextJump ==
    CallTsSegment \/ ReadJumpPacket \/ ReadTsError \/ FinishSegment \/ InitiateShutdown

SpecJump == InitSeg /\ [][NextJump]_vars

(***************************************************************************)
(* A source that goes silent: it delivers the key frame that starts the    *)
(* file, and from then on every read returns try-again                     *)
(***************************************************************************)
ReadSilentFirst ==
    /\ ~rs.found_first_keyframe
    /\ \E pkt \in SupPackets : record_segment_iteration(0, 0, pkt, TRUE)

ReadSilentAgain ==
    \E delta \in 0 .. MaxDelta :
        /\ now + delta * USEC <= MaxSilentNow * USEC
        /\ record_segment_iteration(delta, AVERROR_EAGAIN, AnyPkt, TRUE)

NextSilent == CallKeySegment \/ ReadSilentFirst \/ ReadSilentAgain \/ InitiateShutdown

SpecSilent == InitSeg /\ [][NextSilent]_vars

(***************************************************************************)
(* The control API: starts and stops of one writer, workers seen from      *)
(* outside                                                                 *)
(***************************************************************************)
ComponentIds == {-1, 0}

Start ==
    \E outcome \in StartOutcomes, component_id \in ComponentIds :
        start_recording_thread(outcome, component_id)

WorkerReturns == \E c \in Ctxs : worker_returns(c)

SetRotating == \E b \in BOOLEAN : set_rotating(b)

NextApi ==
    \/ Start \/ stop_signal \/ StopJoin \/ stop_notify \/ WorkerReturns
    \/ InitiateShutdown \/ SetRotating

SpecApi == InitSeg /\ [][NextApi]_vars

\* the thread that calls stop is scheduled; nothing is assumed of the workers
SpecStop ==
    /\ InitSeg
    /\ [][NextApi]_vars
    /\ WF_vars(StopJoin)
    /\ WF_vars(stop_notify)


(***************************************************************************)
(* Properties of the segment recorder                                      *)
(***************************************************************************)
Written(s) == fl.lastof[s].stream # "none"

\* every write of the session succeeded so far
NoWriteFailed(f) == ~f.wfail

\* C2: every packet written to an output file, video or audio, copied or
\* final, has output DTS <= 2^31-1 and output PTS <= 2^31-1 (stated for the
\* packets that carry both timestamps, while no write of the session failed).
C2_StampsWithinLimit ==
    \A s \in Streams :
        (/\ Written(s)
         /\ NoWriteFailed(fl)
         /\ fl.lastof[s].dts # AV_NOPTS_VALUE
         /\ fl.lastof[s].pts # AV_NOPTS_VALUE)
        => /\ LE64(fl.lastof[s].dts, MP4_DTS_LIMIT)
           /\ LE64(fl.lastof[s].pts, MP4_DTS_LIMIT)

\* C3: within one output file and one stream, the output DTS of a written
\* packet is greater than or equal to that of the packet written before it
\* (stated while no write of the session failed).
C3_DtsNonDecreasing ==
    [][\A s \in Streams :
          (/\ fl.nw[s] > 0
           /\ NoWriteFailed(fl')
           /\ fl'.nw[s] = fl.nw[s] + 1
           /\ fl.lastof[s].dts # AV_NOPTS_VALUE
           /\ fl'.lastof[s].dts # AV_NOPTS_VALUE)
          => LE64(fl.lastof[s].dts, fl'.lastof[s].dts)]_vars

\* C4: every written packet whose DTS and PTS are both valid has output
\* PTS >= output DTS.
C4_PtsNotBelowDts ==
    \A s \in Streams :
        (/\ Written(s)
         /\ fl.lastof[s].dts # AV_NOPTS_VALUE
         /\ fl.lastof[s].pts # AV_NOPTS_VALUE)
        => GE64(fl.lastof[s].pts, fl.lastof[s].dts)

\* C5: the first video packet written to a file is a keyframe, unless the
\* last video packet written before this file was a keyframe (stated while
\* no write of the session failed).
C5_FirstVideoIsKeyframe ==
    (fl.first_video = "nonkey" /\ NoWriteFailed(fl)) => prev_file = "key"

\* C6: in every output file no audio packet is handed to the writer before a
\* video packet of that file was: the first packet of a file is a video packet.
C6_NoAudioBeforeVideo ==
    fl.nsub > 0 => fl.video_submitted

\* an audio packet was written to a file, after its first video packet
C6_Witness ==
    fl.nw["audio"] > 0 /\ fl.nw["video"] > 0


(***************************************************************************)
(* Properties of the supervisor and of the control API                     *)
(***************************************************************************)
\* C1: at most one worker of the writer is alive at any time
C1_AtMostOneWorker ==
    Cardinality({c \in Ctxs : Alive(c)}) <= 1

\* the ids of the catalog records of a path
RecordsOf(path) == {id \in 1 .. Len(catalog) : catalog[id].path = path}

\* C7: every output file that was opened has exactly one catalog record
C7_OneRecordPerOpenedFile ==
    \A path \in Paths : disk[path] >= 0 => Cardinality(RecordsOf(path)) = 1

\* the ids of the catalog records that are not complete
Incomplete == {id \in 1 .. Len(catalog) : ~catalog[id].is_complete}

\* C8: at most one catalog record of the writer is incomplete at any time
C8_AtMostOneIncomplete ==
    Cardinality(Incomplete) <= 1

\* C8: within a session at most one catalog record of the writer is
\* incomplete, except in a rotation between the add of the record of the new
\* file and the finalizing update of the record of the current file, when at
\* most two are
C8_AtMostOneIncompleteOutsideRotation ==
    Cardinality(Incomplete) <= IF sup.pc = "rotate_finalize" THEN 2 ELSE 1

C8_Witness ==
    /\ sup.pc = "rotate_finalize"
    /\ Cardinality(Incomplete) = 2

\* C9: when the record of a file is finalized in a rotation, the add of the
\* record of the next file was issued before
C9_AddBeforeFinalize ==
    \A k \in 1 .. Len(oplog) :
        oplog[k].op = "finalize" =>
            \E j \in 1 .. k - 1 : oplog[j].op = "add" /\ oplog[j].path = oplog[k].next

C9_Witness ==
    \E k \in 1 .. Len(oplog) : oplog[k].op = "finalize" /\ oplog[k].next # oplog[k].path

\* C10: when the worker has exited after the segment of its current file was
\* recorded, the record of that file is complete and carries the file's size
C10_LastRecordFinalized ==
    (/\ sup.pc = "exited"
     /\ sup.ret >= 0
     /\ disk[writer.output_path] > 0
     /\ fl.nw["video"] > 0
     /\ writer.current_recording_id > 0
     /\ catalog[writer.current_recording_id].path = writer.output_path)
    => /\ catalog[writer.current_recording_id].is_complete
       /\ catalog[writer.current_recording_id].size = disk[writer.output_path]

(***************************************************************************)
(* The retry strategy of the workers of one process: the segments of two   *)
(* workers return one after the other, in any order                        *)
(***************************************************************************)
RetryWorkers == {1, 2}

\* lines 1016-1070 in the worker w: record_segment returned ret
retry_after_segment(w, ret) ==
    /\ Len(oplog) < MaxRetryOps
    /\ LET retry == RetryStrategy(segment_retry_count, ret)
       IN  /\ segment_retry_count' = retry.segment_retry_count
           /\ oplog' = Append(oplog, [op |-> "retry", worker |-> w, ret |-> ret,
                                      backoff_seconds |-> retry.backoff_seconds,
                                      closed |-> retry.aggressive])
    /\ UNCHANGED <<rs, segment_info, waiting_start_time, input_ctx, now,
                   shutdown_initiated, fl, prev_file, ctxs, threads, writer, api,
                   sup, catalog, disk, component_state>>

SegmentFails == \E w \in RetryWorkers : retry_after_segment(w, AVERROR_EIO)

SegmentSucceeds == \E w \in RetryWorkers : retry_after_segment(w, 0)

NextRetry == SegmentFails \/ SegmentSucceeds

SpecRetry == InitSeg /\ [][NextRetry]_vars

(***************************************************************************)
(* Shutdown and stop                                                       *)
(***************************************************************************)
\* the clock of the model stops at MaxSupNow: a shutdown that leaves the
\* recorder the read that starts its wait, and the 2 seconds of line 350
ShutdownInTime == now + (MaxDelta + 3) * USEC <= MaxSupNow * USEC

\* the recorder copies a segment while the system shuts down
CopyingAtShutdown ==
    shutdown_initiated /\ rs.pc = "loop" /\ rs.found_first_keyframe

\* C11: when the system shutdown starts while a segment is copied and the
\* source keeps delivering video packets, the recorder eventually writes the
\* trailer and returns; the worker then goes from the top of its loop to its
\* cleanup, without another call of record_segment
C11_ShutdownEndsSegment ==
    /\ (CopyingAtShutdown /\ ShutdownInTime) ~> (rs.pc = "returned")
    /\ [][(shutdown_initiated /\ (rs.pc = "returned" \/ sup.pc = "loop"))
            => sup'.pc \in {"loop", "cleanup"}]_vars

\* a segment of 30 seconds that ended on a final frame within the first
\* seconds, and the worker left its loop
C11_Witness ==
    /\ shutdown_initiated
    /\ sup.pc = "cleanup"
    /\ sup.segment_duration = 0
    /\ fl.trailers = 1
    /\ fl.nw["video"] >= 2
    /\ fl.lastof["video"].final
\* C12: once stop has cleared running and set shutdown_requested, a packet
\* the recorder processes in its loop finds it waiting for the final key
\* frame, or is the final packet
C12_StopObservedInPacketLoop ==
    [][(/\ rs.pc = "loop"
        /\ sup.ctx # 0
        /\ ~ctxs[sup.ctx].running
        /\ ctxs[sup.ctx].shutdown_requested
        /\ fl'.nsub > fl.nsub)
       => (rs'.pc = "finalizing" \/ rs'.waiting_for_final_keyframe)]_vars
\* C13: a call of stop that has signalled the worker returns, whatever the
\* worker does
C13_StopReturns == (api.pc = "stop_join") ~> (api.pc = "idle")

\* stop has returned and the worker it signalled still runs
C13_Witness ==
    /\ api.pc = "idle"
    /\ writer.thread_ctx = 0
    /\ \E c \in Ctxs : threads[c] = "detached" /\ ctxs[c].shutdown_requested
\* the worker is between its first and its last access to its context
\* (lines 813-877)
WorkerUsesCtx == sup.pc \notin {"none", "cleanup", "exited"}

\* C14: a context is freed only by a stop whose join succeeded, a stop whose
\* join timed out leaves the context allocated and clears the writer's
\* pointer, and the context of a worker that still uses it is not freed
C14_NoUseAfterFree ==
    /\ \A c \in Ctxs : ctxs[c].state = "freed" <=> threads[c] = "joined"
    /\ \A c \in Ctxs : threads[c] = "detached" => ctxs[c].state = "live"
    /\ api.pc = "stop_notify" => writer.thread_ctx = 0
    /\ WorkerUsesCtx => ctxs[sup.ctx].state = "live"

\* stop returned after a join timeout and the worker is still in its loop
C14_Witness ==
    /\ api.pc = "idle"
    /\ writer.thread_ctx = 0
    /\ threads[sup.ctx] = "detached"
    /\ ctxs[sup.ctx].state = "live"
    /\ sup.pc = "loop"
\* C15: a stop of a writer that has a worker and a registered component
\* tells the shutdown coordinator that the component is STOPPED, after a
\* clean join and after a join timeout, before it returns
C15_StopNotifies ==
    /\ (api.pc = "stop_join" /\ writer.shutdown_component_id >= 0)
           ~> (component_state = "stopped")
    /\ [][(api.pc # "idle" /\ api'.pc = "idle" /\ writer.shutdown_component_id >= 0)
            => component_state' = "stopped"]_vars

\* stop returned after a join timeout and the component is STOPPED
C15_Witness ==
    /\ api.pc = "idle"
    /\ component_state = "stopped"
    /\ writer.shutdown_component_id >= 0
    /\ \E c \in Ctxs : threads[c] = "detached"
\* C16: is_recording is true while the rotation flag is set; with the flag
\* clear it is the running flag of the writer's worker, and false when the
\* writer has no worker context: after stop passed its join, and after the
\* worker ended on a system shutdown
C16_IsRecording ==
    /\ writer.is_rotating => is_recording # 0
    /\ ~writer.is_rotating /\ writer.thread_ctx = 0 => is_recording = 0
    /\ ~writer.is_rotating /\ writer.thread_ctx # 0
           => (is_recording # 0 <=> ctxs[writer.thread_ctx].running)
    /\ ~writer.is_rotating /\ api.pc = "stop_notify" => is_recording = 0
    /\ (/\ ~writer.is_rotating
        /\ writer.thread_ctx # 0
        /\ threads[writer.thread_ctx] = "exited") => is_recording = 0

\* the worker ended on a system shutdown, no stop was called, and
\* is_recording is false
C16_Witness ==
    /\ shutdown_initiated
    /\ ~writer.is_rotating
    /\ writer.thread_ctx # 0
    /\ threads[writer.thread_ctx] = "exited"
    /\ ~ctxs[writer.thread_ctx].shutdown_requested
    /\ is_recording = 0
(***************************************************************************)
(* The retry strategy                                                      *)
(***************************************************************************)
RECURSIVE ConsecutiveFailures(_, _, _)
\* history: the number of segments of worker w that failed in a row, up to
\* and including entry i of the log
ConsecutiveFailures(log, w, i) ==
    IF i = 0 THEN 0
    ELSE IF log[i].worker # w THEN ConsecutiveFailures(log, w, i - 1)
    ELSE IF log[i].ret >= 0 THEN 0
    ELSE 1 + ConsecutiveFailures(log, w, i - 1)

\* the backoff after the k-th failure in a row: 1, 2, 4, 8, 16, then 5
BackoffOfFailure(k) == IF k <= 5 THEN 2 ^ (k - 1) ELSE 5

\* entry i of the log follows from the failures of its own worker
FollowsOwnFailures(log, i) ==
    LET k == ConsecutiveFailures(log, log[i].worker, i)
    IN  IF log[i].ret < 0
        THEN /\ log[i].backoff_seconds = BackoffOfFailure(k)
             /\ log[i].closed <=> k >= 6
        ELSE log[i].backoff_seconds = 0 /\ ~log[i].closed

C18_BackoffPerWorker ==
    \A i \in 1 .. Len(oplog) : FollowsOwnFailures(oplog, i)
(***************************************************************************)
(* Read errors and sessions without a segment duration                     *)
(***************************************************************************)
\* C19: a call of record_segment whose packet loop ended on a read error
\* other than end of stream and try again returns a negative value, whether
\* or not the trailer could be written (no write of the session failed, so
\* the error the loop ended with is the error of the read)
C19_ReadErrorReturnsFailure ==
    [][(/\ rs.pc = "finalizing"
        /\ rs.ret = AVERROR_EIO
        /\ ~fl.wfail
        /\ rs'.pc = "returned")
       => rs'.ret < 0]_vars
\* history: the records the supervisor added to the catalog
AddsOf(log) == {i \in 1 .. Len(log) : log[i].op = "add"}

\* C20: while the writer has no segment duration (and no positive
\* configured value has replaced it) the supervisor has added the initial
\* record only, the output path is the initial one, and the file is opened
\* once: no call of record_segment opens it again after a first call that
\* wrote it and closed it
C20_SingleFileWithoutDuration ==
    writer.segment_duration = 0
        => /\ Cardinality(AddsOf(oplog)) <= 1
           /\ writer.output_path = 0
           /\ rs.pc = "loop" => rs.segment_index <= 1

\* the first two parts of C20_SingleFileWithoutDuration alone
NoRotationWithoutDuration ==
    writer.segment_duration = 0
        => Cardinality(AddsOf(oplog)) <= 1 /\ writer.output_path = 0
(***************************************************************************)
(* Failed segments                                                         *)
(***************************************************************************)
\* C21: in a session with a segment duration, the call of record_segment
\* that follows a failed call is given another output path than the failed
\* call
C21_FreshPathAfterFailure ==
    (sup.pc = "record" /\ rs.pc # "idle" /\ sup.ret < 0 /\ sup.segment_duration > 0)
        => writer.output_path # sup.path_of_ret
(***************************************************************************)
(* Segment index and rebasing                                              *)
(***************************************************************************)
\* C22: the first segment of a session runs with segment index 0, and the
\* first packet written for a stream in it has output DTS 0 and output PTS 0
\* (stated for packets that carry both timestamps, while no write failed)
C22_FirstSegmentStartsAtZero ==
    (rs.pc \in {"loop", "finalizing"} /\ segment_info.segment_index = 0)
        => /\ rs.segment_index = 0
           /\ \A s \in Streams :
                  (/\ fl.nw[s] = 1
                   /\ NoWriteFailed(fl)
                   /\ fl.lastof[s].dts # AV_NOPTS_VALUE
                   /\ fl.lastof[s].pts # AV_NOPTS_VALUE)
                  => fl.lastof[s].dts = N64(0) /\ fl.lastof[s].pts = N64(0)

\* the first stamps the call r recorded for stream s
FirstStampsOf(r, s) ==
    IF s = "video" THEN [dts |-> r.first_video_dts, pts |-> r.first_video_pts]
    ELSE [dts |-> r.first_audio_dts, pts |-> r.first_audio_pts]

\* the stamps the source gave the last packet written for stream s, relative
\* to the first stamps of the stream in the file
RelativeInput(f, r, s) ==
    [dts |-> Sub64(f.lastof[s].in_dts, FirstStampsOf(r, s).dts),
     pts |-> Sub64(f.lastof[s].in_pts, FirstStampsOf(r, s).pts)]

\* the last packet written for stream s left with its relative input stamps
\* plus tick
RelativePlus(f, r, s, tick) ==
    /\ f.lastof[s].dts = Add64(RelativeInput(f, r, s).dts, tick)
    /\ f.lastof[s].pts = Add64(RelativeInput(f, r, s).pts, tick)

C24_SilentSourceReturns ==
    (rs.pc = "loop" /\ rs.found_first_keyframe)
        => now - rs.start_time <= (rs.duration + 2 + MaxDelta + 1) * USEC

\* C25: a video packet that is not a key frame and is received less than 2
\* seconds after the recorder, copying, began to wait for the final key frame
\* is written and does not end the segment (stated for the packet read in
\* the iteration in which the wait began)
C25_WaitMeasuredPerInvocation ==
    [][(/\ rs.pc = "loop"
        /\ rs.found_first_keyframe
        /\ ~rs.waiting_for_final_keyframe
        /\ now' - now < 2 * USEC
        /\ NoWriteFailed(fl')
        /\ fl'.nw["video"] = fl.nw["video"] + 1
        /\ ~fl'.lastof["video"].key)
       => rs'.pc = "loop"]_vars

\* C26: the recorder waits for the final key frame on account of the segment
\* duration only after it began to copy: while it is still waiting for the
\* first key frame of the file the duration check has no effect (stated for
\* segments of more than one second, without a shutdown)
C26_FinalWaitOnlyFromCopying ==
    (/\ rs.pc = "loop"
     /\ rs.duration > 1
     /\ rs.waiting_for_final_keyframe
     /\ ~rs.shutdown_detected)
        => rs.found_first_keyframe

\* C27: when record_segment has returned and wrote at least one video packet
\* to its file, last_frame_was_key tells whether the last video packet
\* written to the file was a key frame (stated while no write failed)
C27_LastFrameFlagMatchesFile ==
    (rs.pc = "returned" /\ fl.nw["video"] >= 1 /\ NoWriteFailed(fl))
        => (segment_info.last_frame_was_key <=> fl.lastof["video"].key)

(* The input connection *)
\* C28: record_segment leaves a connection it finds in the slot where it is,
\* and every connection that is in the slot after one of its steps is open
C28_RecorderKeepsInputOpen ==
    [][(rs' # rs /\ rs'.pc # "idle")
       => /\ input_ctx.handle # 0 => input_ctx' = input_ctx
          /\ input_ctx'.handle # 0 => input_ctx'.open]_vars

\* a call that failed after it connected has returned, and the slot holds the
\* open connection
C28_Witness ==
    /\ rs.pc = "returned"
    /\ rs.ret < 0
    /\ input_ctx.handle # 0
    /\ input_ctx.open

\* C29: when the worker has left its loop and ended, no input connection
\* opened during the session is still open
C29_NoConnectionLeftOpen ==
    sup.pc = "exited" => (input_ctx.handle = 0 /\ ~input_ctx.open /\ ~input_ctx.leaked)

(* The output file *)
\* C30: when record_segment has returned, av_write_trailer was called at
\* most once in the call, and only after the header was written; the output
\* file is closed
C30_TrailerOnceAndFileClosed ==
    rs.pc = "returned"
        => /\ rs.trailer_calls <= 1
           /\ rs.trailer_calls = 1 => rs.header_written
           /\ ~rs.pb

\* a call whose trailer failed has returned: its file was opened, one trailer
\* was attempted, and the file is closed
C30_Witness ==
    /\ rs.pc = "returned"
    /\ rs.ret < 0
    /\ rs.file_opened
    /\ rs.header_written
    /\ rs.trailer_calls = 1
    /\ ~rs.pb
    /\ ~fl.open

(* The overflow guard and the packet duration *)
\* the stamps of a packet of stream s after rebasing, the PTS >= DTS fix and
\* the audio monotonicity rule, before the overflow guard; r is the call
\* before the packet
PreGuardStamps(r, pkt, s) ==
    IF s = "video"
    THEN VideoCopyStamps(pkt, r.first_video_dts, r.first_video_pts, r.segment_index)
    ELSE AudioMonotonic(
             RebaseTs(pkt.dts, FirstDts(r.first_audio_dts, pkt), r.segment_index),
             RebaseTs(pkt.pts, FirstPts(r.first_audio_dts, r.first_audio_pts, pkt),
                      r.segment_index),
             r.last_audio_dts, r.last_audio_pts, r.audio_packet_count)

\* the input stamps of the last packet written for stream s
InputOf(f, s) == [dts |-> f.lastof[s].in_dts, pts |-> f.lastof[s].in_pts]

\* C31: a written packet whose rebased DTS exceeds 0x70000000 (or 2^31-1)
\* leaves with DTS 1000 and PTS 1000 + d, d being its PTS - DTS difference
\* before the reset, or PTS 1000 if d was negative (stated for the packets the
\* guard is applied to, audio packets and final video packets, that carry
\* both stamps, while no write failed)
C31_OverflowResetKeepsDifference ==
    [][\A s \in Streams :
          LET pre == PreGuardStamps(rs, InputOf(fl', s), s)
              d   == Sub64(pre.pts, pre.dts)
          IN  (/\ rs.pc = "loop"
               /\ NoWriteFailed(fl')
               /\ fl'.nw[s] = fl.nw[s] + 1
               /\ s = "video" => fl'.lastof[s].final
               /\ pre.dts # AV_NOPTS_VALUE
               /\ pre.pts # AV_NOPTS_VALUE
               /\ GT64(pre.dts, MP4_DTS_SAFE))
              => /\ fl'.lastof[s].dts = DTS_RESET
                 /\ fl'.lastof[s].pts = IF GE64(d, N64(0)) THEN Add64(DTS_RESET, d)
                                        ELSE DTS_RESET]_vars

\* C32: every packet written to an output file, video or audio, copied or
\* final, has a duration of at most 10,000,000 ticks
C32_DurationCapped ==
    \A s \in Streams :
        Written(s) => LE64(fl.lastof[s].duration, MAX_PKT_DURATION)

\* C33: within one output file, a written audio packet has an output DTS
\* above that of the audio packet written before it, and likewise an output
\* PTS above (stated for packets that carry both stamps, while no write
\* failed)
C33_AudioStrictlyIncreasing ==
    [][(/\ fl.nw["audio"] > 0
        /\ NoWriteFailed(fl')
        /\ fl'.nw["audio"] = fl.nw["audio"] + 1
        /\ fl.lastof["audio"].dts # AV_NOPTS_VALUE
        /\ fl.lastof["audio"].pts # AV_NOPTS_VALUE
        /\ fl'.lastof["audio"].dts # AV_NOPTS_VALUE
        /\ fl'.lastof["audio"].pts # AV_NOPTS_VALUE)
       => /\ GT64(fl'.lastof["audio"].dts, fl.lastof["audio"].dts)
          /\ GT64(fl'.lastof["audio"].pts, fl.lastof["audio"].pts)]_vars

(* The catalog after a rotation *)
\* C34: a metadata record that was marked complete is not updated any more:
\* it stays complete and keeps its size
C34_NoUpdateAfterFinalize ==
    [][\A id \in 1 .. Len(catalog) :
          catalog[id].is_complete => catalog'[id] = catalog[id]]_vars

(* Output paths *)
\* C35: in a session with a segment duration, record_segment is not given
\* the output path of the call before it when that call wrote video and
\* returned success
C35_CompletedFileNotReopened ==
    (/\ sup.pc = "record"
     /\ rs.pc \in {"loop", "finalizing"}
     /\ segment_info.segment_index > 0
     /\ segment_info.last_frame_was_key
     /\ prev_file = "key"
     /\ sup.segment_duration > 0
     /\ sup.ret >= 0)
        => writer.output_path # sup.path_of_ret

(* The writer after a stop *)
\* a step of the worker that reads or writes a field of the writer: the
\* first metadata record (lines 871-893), the loop top that does not leave
\* the loop (lines 903-918), the rotation (lines 919-995), the call of
\* record_segment (line 1016) and the code after it (lines 1072-1086)
WorkerUsesWriter ==
    \/ sup.pc \in {"start", "rotate_add", "rotate_finalize", "rotate_switch"} /\ sup' # sup
    \/ sup.pc = "loop" /\ sup'.pc \notin {"loop", "cleanup"}
    \/ sup.pc = "record" /\ rs.pc = "idle" /\ rs' # rs
    \/ sup.pc = "record" /\ sup' # sup

\* C36: once mp4_writer_stop_recording_thread has returned, also after a join
\* that timed out, the worker takes no step that reads or writes a field of
\* the writer (stated for a worker that is recording a segment)
C36_NoWriterUseAfterStop ==
    [][(/\ api.pc = "idle"
        /\ sup.ctx # 0
        /\ sup.pc = "record"
        /\ rs.pc # "idle"
        /\ threads[sup.ctx] \in {"detached", "joined"})
       => ~WorkerUsesWriter]_vars

\* C37: every packet written with valid input timestamps leaves with output
\* DTS >= 0 and output PTS >= 0, in every segment and for any order of the
\* input timestamps (stated while no write of the session failed)
C37_StampsNonNegative ==
    \A s \in Streams :
        (/\ Written(s)
         /\ NoWriteFailed(fl)
         /\ InputOf(fl, s).dts # AV_NOPTS_VALUE
         /\ InputOf(fl, s).pts # AV_NOPTS_VALUE)
        => /\ GE64(fl.lastof[s].dts, N64(0))
           /\ GE64(fl.lastof[s].pts, N64(0))
====
